---- MODULE Spec2Model ----
(***************************************************************************)
(* The session lifecycle engine of the quiz server (src/server.js): one    *)
(* session of the in-memory registry, the sockets that talk to it, the     *)
(* question interval started by sendQuestion, the inter-question countdown *)
(* intervals started by endQuestion and the cleanup timeouts of endQuiz.   *)
(* Every socket handler and every timer callback runs to completion, so    *)
(* each is one action.                                                     *)
(*                                                                         *)
(* Spec lets two sockets send any events with the timers firing at any     *)
(* time. PlaySpec is a host socket and a player socket with one event      *)
(* more. JoinSpec is three sockets that join, with the order of the joins  *)
(* kept. RestartSpec is one socket on a quiz of eight questions, with the  *)
(* intervals firing once a second.                                         *)
(***************************************************************************)
EXTENDS Integers, Sequences, FiniteSets, TLC

\* ------------------------------------------------------------------ inputs

\* The socket ids that exist; an id is never reused.
Sockets == {"c1", "c2", "c3"}

\* The sockets that send events in a run of Spec.
Conns == {"c1", "c2"}

\* The session id handed out by POST /api/session, and one that names nothing.
SID == "s1"
SessionIds == {SID}

\* Player names typed by clients: two of them differ in case only.
Names == {"Al", "al", "Bo"}

\* Option indexes clients submit with player:answer.
Answers == {0, 1}

\* data.timeLimit of host:start (0 would stand for a missing value).
TimeLimits == {3}

\* The correctIndex of each question of the sets a session is created with
\* (POST /api/import accepts an empty array, POST /api/session does not).
QuestionSets == {<<>>, <<0>>, <<1, 0>>}

\* How many events the clients send in one run, disconnects aside (a socket
\* disconnects once).
MaxEvents == 4

\* A quiz of eight questions, the first option being the correct one of each.
LongQuiz == <<0, 0, 0, 0, 0, 0, 0, 0>>

\* Events and seconds of a run of RestartSpec.
MaxRestartEvents == 6
MaxRounds == 7

\* Events of a run of JoinSpec.
MaxJoinEvents == 5

\* Events of a run of PlaySpec.
MaxPlayEvents == 5

\* Events of a run of FairSpec.
MaxFairEvents == 4

\* ------------------------------------------------------- values of the code

\* null (a player's currentAnswer and answerTime, session.timer, hostSocketId)
Null == -99
\* undefined (session.timeLimit before host:start, answerTime of a new player)
Undefined == -98

DEFAULT_TIME_LIMIT == 30
MIN_TIME_LIMIT == 5
MAX_TIME_LIMIT == 120
MAX_POINTS == 1000
MIN_POINTS == 500
COUNTDOWN_START == 5
PODIUM_SIZE == 3

NoHost == "null"

\* String.prototype.toLowerCase on the names above.
toLowerCase(n) == IF n = "Al" THEN "al" ELSE IF n = "Bo" THEN "bo" ELSE n

LowerNames == {toLowerCase(n) : n \in Names}

VARIABLES
  questions,             \* session.questions: the correctIndex of each question
  inRegistry,            \* sessions.has(session.id)
  hostSocketId,          \* session.hostSocketId
  players,               \* session.players: a Map in insertion order
  status,                \* session.status
  currentQuestionIndex,  \* session.currentQuestionIndex (0-based)
  timeLimit,             \* session.timeLimit
  timer,                 \* session.timer: a handle or Null
  timeLeft,              \* session.timeLeft
  intervals,             \* handles of the question intervals still scheduled
  countdowns,            \* the inter-question intervals still scheduled
  cleanups,              \* pending 60 s cleanup timeouts
  podium,                \* payload of the quiz:finished the last step emitted:
  allResults,            \* podium and allResults (empty when it emitted none)
  sock,                  \* per socket: connected, socket.sessionId, socket.isHost
  crashed,               \* an uncaught TypeError ended the process
  used,                  \* client events handled so far
  awaiting,              \* index of the question sent and not ended yet, or Null
  dropped,               \* per lower-cased name: the score its player had when a
                         \* disconnect removed it (Null once the name joins again)
  out,                   \* the events the last step emitted, in order
  calls,                 \* the game logic functions it invoked, in order
  endedByHost,           \* a disconnect of a host socket removed the session
  joinOrder,             \* lower-cased names of the players, in the order they joined
  round,                 \* seconds elapsed (where the timers run on a clock)
  ivFired,               \* question intervals that fired in this second
  cdFired,               \* per countdown interval: it fired in this second
  sent                   \* indexes of the questions sendQuestion emitted, in order

sessionVars == <<inRegistry, hostSocketId, players, status, currentQuestionIndex,
                 timeLimit, timer, timeLeft>>
timerVars == <<intervals, countdowns, cleanups>>
payload == <<podium, allResults>>
clock == <<round, ivFired, cdFired>>
vars == <<questions, inRegistry, hostSocketId, players, status,
          currentQuestionIndex, timeLimit, timer, timeLeft, intervals,
          countdowns, cleanups, podium, allResults, sock, crashed, used,
          awaiting, dropped, out, calls, endedByHost, joinOrder, round,
          ivFired, cdFired, sent>>

\* ------------------------------------------------------------ Map helpers

MapHas(m, id) == \E i \in 1..Len(m) : m[i].id = id

MapIndex(m, id) == CHOOSE i \in 1..Len(m) : m[i].id = id

\* Map.prototype.set: an existing key keeps its place, a new one goes last.
MapSet(m, id, rec) ==
  LET e == [rec EXCEPT !.id = id]
  IN IF MapHas(m, id) THEN [m EXCEPT ![MapIndex(m, id)] = e] ELSE Append(m, e)

\* Map.prototype.delete
MapDelete(m, id) == SelectSeq(m, LAMBDA p : p.id # id)

\* Array.prototype.find over the entries: the index of the first player whose
\* name matches case-insensitively, 0 when there is none.
FindByName(m, name) ==
  LET hits == {i \in 1..Len(m) : toLowerCase(m[i].name) = toLowerCase(name)}
  IN IF hits = {} THEN 0 ELSE CHOOSE i \in hits : \A j \in hits : i <= j

\* ------------------------------------------------------------- game logic
\* The game logic functions work on the session object and on the timers of
\* the event loop; here they map a record of all of these to the record after
\* the call. A TypeError thrown on the way is uncaught (neither the socket
\* handlers nor the timer callbacks catch anything): it ends the process with
\* the assignments made so far, and nothing after the throw runs.

World ==
  [inRegistry |-> inRegistry, hostSocketId |-> hostSocketId, players |-> players,
   status |-> status, currentQuestionIndex |-> currentQuestionIndex,
   timeLimit |-> timeLimit, timer |-> timer, timeLeft |-> timeLeft,
   intervals |-> intervals, countdowns |-> countdowns, cleanups |-> cleanups,
   podium |-> <<>>, allResults |-> <<>>,
   crashed |-> FALSE, awaiting |-> awaiting, out |-> <<>>, calls |-> <<>>]

Emit(w, e) == [w EXCEPT !.out = Append(@, e)]

Called(w, fn) == [w EXCEPT !.calls = Append(@, <<fn, w.currentQuestionIndex>>)]

\* session.questions[session.currentQuestionIndex] is undefined
NoQuestion(w) == w.currentQuestionIndex >= Len(questions)

\* session.timeLimit || 30
EffectiveTimeLimit(w) ==
  IF w.timeLimit = Undefined THEN DEFAULT_TIME_LIMIT ELSE w.timeLimit

\* for (const player of session.players.values()) { currentAnswer = null; answerTime = null }
ResetAnswers(m) ==
  [i \in 1..Len(m) |-> [m[i] EXCEPT !.currentAnswer = Null, !.answerTime = Null]]

\* setInterval returns a handle no live interval has.
NewHandle(w) == CHOOSE h \in 1..(Cardinality(w.intervals) + 1) : h \notin w.intervals

\* clearInterval(session.timer): nothing happens for null or a dead handle.
ClearTimer(w) == [w EXCEPT !.intervals = @ \ {w.timer}]

sendQuestion(w0) ==
  LET w1 == Called(w0, "sendQuestion")
      w2 == [w1 EXCEPT !.players = ResetAnswers(@)]
  IN IF NoQuestion(w2)
     THEN [w2 EXCEPT !.crashed = TRUE]
     ELSE LET h == NewHandle(w2)
              w3 == Emit(Emit(w2, "quiz:question"), "host:correctAnswer")
          IN [w3 EXCEPT !.timeLeft = EffectiveTimeLimit(w3),
                        !.timer = h,
                        !.intervals = @ \cup {h},
                        !.awaiting = w3.currentQuestionIndex]

\* Math.round(MIN_POINTS + (answerTime / TIME_LIMIT) * (MAX_POINTS - MIN_POINTS)):
\* Math.round rounds a half up, which is the floor of the value plus one half.
RoundedPoints(answerTime, limit) ==
  (2 * (MIN_POINTS * limit + answerTime * (MAX_POINTS - MIN_POINTS)) + limit)
    \div (2 * limit)

PointsEarned(p, correctIndex, limit) ==
  IF p.currentAnswer = correctIndex /\ p.answerTime # Null
  THEN RoundedPoints(p.answerTime, limit)
  ELSE 0

endQuestion(w0) ==
  LET w1 == Called(w0, "endQuestion")
  IN IF NoQuestion(w1)
     THEN [w1 EXCEPT !.crashed = TRUE]
     ELSE LET correctIndex == questions[w1.currentQuestionIndex + 1]
              limit == EffectiveTimeLimit(w1)
              scored == [i \in 1..Len(w1.players) |->
                          [w1.players[i] EXCEPT
                             !.score = @ + PointsEarned(w1.players[i], correctIndex, limit)]]
              w2 == Emit([w1 EXCEPT !.players = scored], "quiz:results")
              next == w2.currentQuestionIndex + 1
          IN [w2 EXCEPT !.currentQuestionIndex = next,
                        !.awaiting = Null,
                        !.countdowns = Append(@,
                           [countdownLeft |-> COUNTDOWN_START,
                            isLastQuestion |-> next >= Len(questions)])]

\* Array.prototype.sort with (a, b) => b.score - a.score: descending, and
\* stable, so equal scores keep the order they had in the array.
RECURSIVE SortByScore(_)
SortByScore(s) ==
  IF s = <<>> THEN <<>>
  ELSE LET first == Head(s)
           rest == SortByScore(Tail(s))
           k == Cardinality({i \in 1..Len(rest) : rest[i].score > first.score})
       IN SubSeq(rest, 1, k) \o <<first>> \o SubSeq(rest, k + 1, Len(rest))

\* Array.from(session.players.values()).map(p => ({name, score})).sort(...)
Standings(m) ==
  SortByScore([i \in 1..Len(m) |-> [name |-> m[i].name, score |-> m[i].score]])

\* standings.slice(0, 3).map((player, index) => ({position: index + 1, ...}))
Podium(standings) ==
  LET n == IF Len(standings) < PODIUM_SIZE THEN Len(standings) ELSE PODIUM_SIZE
  IN [i \in 1..n |-> [position |-> i, name |-> standings[i].name,
                      score |-> standings[i].score]]

endQuiz(w0) ==
  LET w1 == [Called(w0, "endQuiz") EXCEPT !.status = "finished"]
      standings == Standings(w1.players)
  IN [Emit(w1, "quiz:finished") EXCEPT !.podium = Podium(standings),
                                       !.allResults = standings,
                                       !.cleanups = @ + 1]

\* The assignment of a handler's result to the state.
Commit(w) ==
  /\ out' = w.out
  /\ calls' = w.calls
  /\ inRegistry' = w.inRegistry
  /\ hostSocketId' = w.hostSocketId
  /\ players' = w.players
  /\ status' = w.status
  /\ currentQuestionIndex' = w.currentQuestionIndex
  /\ timeLimit' = w.timeLimit
  /\ timer' = w.timer
  /\ timeLeft' = w.timeLeft
  /\ intervals' = w.intervals
  /\ countdowns' = w.countdowns
  /\ cleanups' = w.cleanups
  /\ podium' = w.podium
  /\ allResults' = w.allResults
  /\ crashed' = w.crashed
  /\ awaiting' = w.awaiting
  /\ UNCHANGED questions

\* sessions.get(socket.sessionId)
SocketSession(c) == sock[c].sessionId = SID /\ inRegistry

\* A session as POST /api/session or POST /api/import leaves it in the
\* registry, with one of the question sets `sets`, and no socket heard from.
Created(sets) ==
  /\ questions \in sets
  /\ inRegistry = TRUE
  /\ hostSocketId = NoHost
  /\ players = <<>>
  /\ status = "lobby"
  /\ currentQuestionIndex = 0
  /\ timeLimit = Undefined
  /\ timer = Null
  /\ timeLeft = 0
  /\ intervals = {}
  /\ countdowns = <<>>
  /\ cleanups = 0
  /\ podium = <<>>
  /\ allResults = <<>>
  /\ sock = [c \in Sockets |-> [open |-> TRUE, sessionId |-> "none", isHost |-> "undefined"]]
  /\ crashed = FALSE
  /\ used = 0
  /\ awaiting = Null
  /\ dropped = [n \in LowerNames |-> Null]
  /\ out = <<>>
  /\ calls = <<>>
  /\ endedByHost = FALSE
  /\ joinOrder = <<>>
  /\ round = 0
  /\ ivFired = {}
  /\ cdFired = <<>>
  /\ sent = <<>>

Init == Created(QuestionSets)

\* ---------------------------------------------------------- socket handlers

\* Socket c is connected and the process is up.
Connected(c) == ~crashed /\ sock[c].open

\* socket.emit('error', ...) followed by return: nothing else is touched.
Refuse(e) ==
  /\ Commit(Emit(World, e))
  /\ UNCHANGED <<sock, dropped>>

\* A handler that returns without emitting anything.
Ignore ==
  /\ Commit(World)
  /\ UNCHANGED <<sock, dropped>>

\* socket.on('host:join')
HostJoin(c, sid) ==
  /\ Connected(c)
  /\ used' = used + 1
  /\ IF ~(sid = SID /\ inRegistry)
     THEN Refuse("error:NotFound")
     ELSE /\ Commit(Emit([World EXCEPT !.hostSocketId = c], "host:session"))
          /\ sock' = [sock EXCEPT ![c].sessionId = sid, ![c].isHost = "true"]
          /\ UNCHANGED dropped

NewPlayer(name) ==
  [id |-> "-", name |-> name, score |-> 0, currentAnswer |-> Null,
   answerTime |-> Undefined]

\* JoinedPlayers without the reconnect branch (every join adds a player).
JoinedPlayersAlwaysNew(m, c, name) == MapSet(m, c, NewPlayer(name))

\* The player map after a join that the checks let through.
JoinedPlayers(m, c, name) ==
  LET found == FindByName(m, name)
  IN IF found = 0
     THEN MapSet(m, c, NewPlayer(name))
     ELSE LET oldSocketId == m[found].id
              playerData == m[found]
          IN MapSet(MapDelete(m, oldSocketId), c, playerData)

\* JoinRefusal without the check of session.status (a join in any status).
JoinRefusalAnyStatus(sid, name) ==
  LET isReconnect == FindByName(players, name) # 0
      existingNames == {toLowerCase(players[i].name) : i \in 1..Len(players)}
  IN IF ~(sid = SID /\ inRegistry) THEN "error:NotFound"
     ELSE IF ~isReconnect /\ toLowerCase(name) \in existingNames
     THEN "error:DuplicateName"
     ELSE ""

\* The checks of player:join that end in an error reply: "" when it goes on.
JoinRefusal(sid, name) ==
  LET isReconnect == FindByName(players, name) # 0
      existingNames == {toLowerCase(players[i].name) : i \in 1..Len(players)}
  IN IF ~(sid = SID /\ inRegistry) THEN "error:NotFound"
     ELSE IF status # "lobby" /\ ~isReconnect THEN "error:AlreadyStarted"
     ELSE IF ~isReconnect /\ toLowerCase(name) \in existingNames
     THEN "error:DuplicateName"
     ELSE ""

\* socket.on('player:join')
PlayerJoin(c, sid, name) ==
  /\ Connected(c)
  /\ used' = used + 1
  /\ IF JoinRefusal(sid, name) # ""
     THEN Refuse(JoinRefusal(sid, name))
     ELSE /\ Commit(Emit([World EXCEPT !.players = JoinedPlayers(@, c, name)],
                         "lobby:players"))
          /\ sock' = [sock EXCEPT ![c].sessionId = sid, ![c].isHost = "false"]
          /\ dropped' = [dropped EXCEPT ![toLowerCase(name)] = Null]

\* Math.min(Math.max(data?.timeLimit || 30, 5), 120)
ClampTimeLimit(tl) ==
  LET given == IF tl = 0 THEN DEFAULT_TIME_LIMIT ELSE tl
      atLeast == IF given > MIN_TIME_LIMIT THEN given ELSE MIN_TIME_LIMIT
  IN IF atLeast < MAX_TIME_LIMIT THEN atLeast ELSE MAX_TIME_LIMIT

\* StartRefusal without the comparison of socket.id with session.hostSocketId.
StartRefusalAnySocket(c) ==
  IF ~SocketSession(c) THEN "error:Unauthorized"
  ELSE IF Len(players) = 0 THEN "error:NoPlayers"
  ELSE ""

\* The checks of host:start that end in an error reply: "" when it goes on.
StartRefusal(c) ==
  IF ~SocketSession(c) \/ c # hostSocketId THEN "error:Unauthorized"
  ELSE IF Len(players) = 0 THEN "error:NoPlayers"
  ELSE ""

\* socket.on('host:start')
HostStart(c, tl) ==
  /\ Connected(c)
  /\ used' = used + 1
  /\ IF StartRefusal(c) # ""
     THEN Refuse(StartRefusal(c))
     ELSE /\ Commit(sendQuestion([World EXCEPT
                                    !.timeLimit = ClampTimeLimit(tl),
                                    !.status = "playing",
                                    !.currentQuestionIndex = 0,
                                    !.players = ResetAnswers(@)]))
          /\ UNCHANGED <<sock, dropped>>

\* Answered with the time recorded on every answer, not on the first only.
AnsweredAlwaysTimed(player, answerIndex, left) ==
  [player EXCEPT !.answerTime = left, !.currentAnswer = answerIndex]

\* if (player.currentAnswer === null) player.answerTime = session.timeLeft;
\* player.currentAnswer = answerIndex
Answered(player, answerIndex, left) ==
  LET timed == IF player.currentAnswer = Null
               THEN [player EXCEPT !.answerTime = left]
               ELSE player
  IN [timed EXCEPT !.currentAnswer = answerIndex]

\* socket.on('player:answer')
PlayerAnswer(c, answerIndex) ==
  /\ Connected(c)
  /\ used' = used + 1
  /\ IF ~SocketSession(c) \/ status # "playing" \/ ~MapHas(players, c)
     THEN Ignore
     ELSE LET i == MapIndex(players, c)
              answered == Answered(players[i], answerIndex, timeLeft)
          IN /\ Commit(Emit(Emit([World EXCEPT !.players[i] = answered],
                                 "host:answerCount"), "host:answerStats"))
             /\ UNCHANGED <<sock, dropped>>

\* socket.on('host:skip')
HostSkip(c) ==
  /\ Connected(c)
  /\ used' = used + 1
  /\ IF ~SocketSession(c) \/ c # hostSocketId
     THEN Ignore
     ELSE /\ Commit(endQuestion([ClearTimer(World) EXCEPT !.timer = Null]))
          /\ UNCHANGED <<sock, dropped>>

\* socket.on('disconnect')
Disconnect(c) ==
  /\ Connected(c)
  /\ sock' = [sock EXCEPT ![c] = [open |-> FALSE, sessionId |-> "none",
                                  isHost |-> "undefined"]]
  /\ UNCHANGED used
  /\ IF ~SocketSession(c)
     THEN Commit(World) /\ UNCHANGED dropped
     ELSE IF sock[c].isHost = "true"
     THEN /\ Commit(Emit([ClearTimer(World) EXCEPT !.inRegistry = FALSE],
                         "session:ended"))
          /\ UNCHANGED dropped
     ELSE /\ Commit(Emit([World EXCEPT !.players = MapDelete(@, c)], "lobby:players"))
          /\ dropped' = IF MapHas(players, c)
                        THEN LET p == players[MapIndex(players, c)]
                             IN [dropped EXCEPT ![toLowerCase(p.name)] = p.score]
                        ELSE dropped

\* ----------------------------------------------------------- timer callbacks

\* The setInterval callback of sendQuestion, for the interval with handle h.
QuestionTick(h) ==
  /\ ~crashed /\ h \in intervals
  /\ LET w1 == Emit([World EXCEPT !.timeLeft = @ - 1], "quiz:timer")
     IN IF w1.timeLeft <= 0
        THEN Commit(endQuestion([ClearTimer(w1) EXCEPT !.timer = Null]))
        ELSE Commit(w1)
  /\ UNCHANGED <<sock, used, dropped>>

RemoveAt(s, i) == SubSeq(s, 1, i - 1) \o SubSeq(s, i + 1, Len(s))

\* The setInterval callback of endQuestion, for the i-th live countdown.
CountdownTick(i) ==
  /\ ~crashed /\ i \in 1..Len(countdowns)
  /\ LET cd == countdowns[i]
         w1 == Emit(World, "quiz:countdown")
         left == cd.countdownLeft - 1
     IN IF left < 0
        THEN LET w2 == [w1 EXCEPT !.countdowns = RemoveAt(@, i)]
             IN IF cd.isLastQuestion
                THEN Commit(endQuiz(w2))
                ELSE IF w2.status = "playing"
                THEN Commit(sendQuestion(w2))
                ELSE Commit(w2)
        ELSE Commit([w1 EXCEPT !.countdowns[i].countdownLeft = left])
  /\ UNCHANGED <<sock, used, dropped>>

\* The setTimeout callback of endQuiz.
Cleanup ==
  /\ ~crashed /\ cleanups > 0
  /\ Commit([World EXCEPT !.cleanups = @ - 1, !.inRegistry = FALSE])
  /\ UNCHANGED <<sock, used, dropped>>

\* ------------------------------------------------------------ observation

\* session:ended is emitted by the host branch of the disconnect handler only.
HostEnded == endedByHost' = (endedByHost \/ "session:ended" \in {out'[i] : i \in DOMAIN out'})

\* The order in which the records of the player map were created: a name that
\* is new to the map goes last, one whose record left the map is forgotten,
\* and a record that a reconnect moves to another socket keeps its place.
Joined ==
  LET present == [i \in 1..Len(players') |-> toLowerCase(players'[i].name)]
      known == {joinOrder[i] : i \in 1..Len(joinOrder)}
      kept == SelectSeq(joinOrder, LAMBDA n : \E i \in 1..Len(present) : present[i] = n)
      fresh == SelectSeq(present, LAMBDA n : n \notin known)
  IN joinOrder' = kept \o fresh

\* The questions the step emitted: sendQuestion emits quiz:question for the
\* index it is called at, unless there is no question at that index.
Asked ==
  LET asked == SelectSeq(calls', LAMBDA e : e[1] = "sendQuestion"
                                              /\ e[2] < Len(questions))
  IN sent' = sent \o [i \in 1..Len(asked) |-> asked[i][2]]

\* ------------------------------------------------------------------- runs

\* A step of a run that keeps neither the order of joins nor a clock.
Plain == HostEnded /\ UNCHANGED <<joinOrder, clock, sent>>

\* Socket ids are arbitrary and interchangeable, so the first socket the
\* server hears from is called "c1".
Named(c) == (used = 0 /\ \A d \in Sockets : sock[d].open) => c = "c1"

\* Any socket of Conns sends any event, at most MaxEvents of them, and the
\* timers fire at any time relative to each other and to the events.
Next ==
  \/ used < MaxEvents /\ \E c \in Conns, sid \in SessionIds :
                            Named(c) /\ HostJoin(c, sid) /\ Plain
  \/ used < MaxEvents /\ \E c \in Conns, sid \in SessionIds, name \in Names :
                            Named(c) /\ PlayerJoin(c, sid, name) /\ Plain
  \/ used < MaxEvents /\ \E c \in Conns, tl \in TimeLimits :
                            Named(c) /\ HostStart(c, tl) /\ Plain
  \/ used < MaxEvents /\ \E c \in Conns, a \in Answers :
                            Named(c) /\ PlayerAnswer(c, a) /\ Plain
  \/ used < MaxEvents /\ \E c \in Conns : Named(c) /\ HostSkip(c) /\ Plain
  \/ \E c \in Conns : Named(c) /\ Disconnect(c) /\ Plain
  \/ \E h \in intervals : QuestionTick(h) /\ Plain
  \/ \E i \in 1..Len(countdowns) : CountdownTick(i) /\ Plain
  \/ Cleanup /\ Plain

Spec == Init /\ [][Next]_vars

\* -------------------------------------------------------- runs on a clock
\* Both kinds of interval are set with a period of 1000 ms, so between two
\* firings of one live interval every other live interval fires once. A
\* second is a round in which each interval that was live at its start fires
\* once, in any order; an interval set during a round first fires in the next.

\* The marks after a step, fi and fc being the marks with the interval that
\* fired in the step accounted for: intervals set in the step are marked,
\* cleared ones forgotten.
Rescheduled(fi, fc) ==
  /\ ivFired' = (fi \cup (intervals' \ intervals)) \cap intervals'
  /\ cdFired' = IF Len(countdowns') > Len(fc) THEN Append(fc, TRUE) ELSE fc
  /\ UNCHANGED <<round, joinOrder, sent>>
  /\ HostEnded

\* A second has passed: every live interval fired.
Second ==
  /\ ~crashed /\ round < MaxRounds
  /\ intervals # {} \/ countdowns # <<>>
  /\ ivFired = intervals /\ \A i \in 1..Len(cdFired) : cdFired[i]
  /\ round' = round + 1
  /\ ivFired' = {}
  /\ cdFired' = [i \in 1..Len(countdowns) |-> FALSE]
  /\ Commit(World)
  /\ UNCHANGED <<sock, used, dropped, endedByHost, joinOrder, sent>>

\* One socket is host and player of a session with LongQuiz: it sends
\* host:join, player:join, host:start and player:answer, at most
\* MaxRestartEvents in all, and never disconnects.
RestartNext ==
  \/ used < MaxRestartEvents /\ HostJoin("c1", SID) /\ Rescheduled(ivFired, cdFired)
  \/ used < MaxRestartEvents /\ PlayerJoin("c1", SID, "Al")
                             /\ Rescheduled(ivFired, cdFired)
  \/ used < MaxRestartEvents /\ \E tl \in TimeLimits :
                                  HostStart("c1", tl) /\ Rescheduled(ivFired, cdFired)
  \/ used < MaxRestartEvents /\ PlayerAnswer("c1", 0) /\ Rescheduled(ivFired, cdFired)
  \/ \E h \in intervals \ ivFired :
       QuestionTick(h) /\ Rescheduled(ivFired \cup {h}, cdFired)
  \/ \E i \in 1..Len(countdowns) :
       /\ ~cdFired[i]
       /\ CountdownTick(i)
       /\ Rescheduled(ivFired, IF Len(countdowns') < Len(countdowns)
                               THEN RemoveAt(cdFired, i)
                               ELSE [cdFired EXCEPT ![i] = TRUE])
  \/ Second

RestartSpec == Created({LongQuiz}) /\ [][RestartNext]_vars

\* ----------------------------------------- runs of a host and a player

\* Socket c1 sends the events of the host page and socket c2 those of the
\* player page, at most MaxPlayEvents in all; either may disconnect, and the
\* timers fire at any time relative to each other and to the events.
PlayNext ==
  \/ used < MaxPlayEvents /\ HostJoin("c1", SID) /\ Plain
  \/ used < MaxPlayEvents /\ \E name \in Names : PlayerJoin("c2", SID, name) /\ Plain
  \/ used < MaxPlayEvents /\ \E tl \in TimeLimits : HostStart("c1", tl) /\ Plain
  \/ used < MaxPlayEvents /\ \E a \in Answers : PlayerAnswer("c2", a) /\ Plain
  \/ used < MaxPlayEvents /\ HostSkip("c1") /\ Plain
  \/ \E c \in Conns : Disconnect(c) /\ Plain
  \/ \E h \in intervals : QuestionTick(h) /\ Plain
  \/ \E i \in 1..Len(countdowns) : CountdownTick(i) /\ Plain
  \/ Cleanup /\ Plain

PlaySpec == Init /\ [][PlayNext]_vars

\* ------------------------------------------- runs that keep the join order

\* A step of a run that keeps the order of first joins and no clock.
Ordered == HostEnded /\ Joined /\ UNCHANGED <<clock, sent>>

\* Three sockets join a session of one question as players, under any names
\* and taking over each other's names, a socket that holds a player not
\* joining again; the first of them is the host too. Nobody answers, skips or
\* disconnects, and the timers fire at any time.
JoinNext ==
  \/ used < MaxJoinEvents /\ HostJoin("c1", SID) /\ Ordered
  \/ used < MaxJoinEvents /\ \E c \in Sockets, name \in Names :
                                ~MapHas(players, c) /\ PlayerJoin(c, SID, name) /\ Ordered
  \/ used < MaxJoinEvents /\ \E tl \in TimeLimits : HostStart("c1", tl) /\ Ordered
  \/ \E h \in intervals : QuestionTick(h) /\ Ordered
  \/ \E i \in 1..Len(countdowns) : CountdownTick(i) /\ Ordered
  \/ Cleanup /\ Ordered

JoinSpec == Created({<<0>>}) /\ [][JoinNext]_vars

\* ------------------------------------------- runs whose timers keep firing

\* A step of a run that keeps the questions sent, and neither the order of
\* joins nor a clock.
Tracked == HostEnded /\ Asked /\ UNCHANGED <<joinOrder, clock>>

\* Socket c1 sends the events of the host page and stays connected, socket c2
\* sends those of the player page and may disconnect, at most MaxFairEvents
\* events in all.
FairNext ==
  \/ used < MaxFairEvents /\ HostJoin("c1", SID) /\ Tracked
  \/ used < MaxFairEvents /\ \E name \in Names : PlayerJoin("c2", SID, name) /\ Tracked
  \/ used < MaxFairEvents /\ \E tl \in TimeLimits : HostStart("c1", tl) /\ Tracked
  \/ used < MaxFairEvents /\ \E a \in Answers : PlayerAnswer("c2", a) /\ Tracked
  \/ used < MaxFairEvents /\ HostSkip("c1") /\ Tracked
  \/ Disconnect("c2") /\ Tracked
  \/ \E h \in intervals : QuestionTick(h) /\ Tracked
  \/ \E i \in 1..Len(countdowns) : CountdownTick(i) /\ Tracked
  \/ Cleanup /\ Tracked

\* setInterval keeps calling the callback of a live interval: a question
\* interval and a countdown interval that stay scheduled do fire.
TimersFire ==
  /\ WF_vars(\E h \in intervals : QuestionTick(h) /\ Tracked)
  /\ WF_vars(\E i \in 1..Len(countdowns) : CountdownTick(i) /\ Tracked)

\* A session with one or two questions.
FairSpec == Created({<<0>>, <<1, 0>>}) /\ [][FairNext]_vars /\ TimersFire

\* ================================================================== claims

Range(f) == {f[i] : i \in DOMAIN f}

\* The names (as stored) of the players of the session.
PlayerNames == {players[i].name : i \in 1..Len(players)}

\* What a player:answer leaves in a record, per socket id.
AnswerState == {<<players[i].id, players[i].currentAnswer, players[i].answerTime>> :
                  i \in 1..Len(players)}

\* C1: every change of the session's status is lobby to playing or playing to
\* finished; finished is never left and is never reached directly from lobby.
C1_StatusOnlyForward ==
  [][status' # status =>
       \/ (status = "lobby" /\ status' = "playing")
       \/ (status = "playing" /\ status' = "finished")]_vars

\* C2: while the process runs, the question intervals and the inter-question
\* countdown intervals of the session number at most one in total.
C2_AtMostOneCountdown ==
  ~crashed => Cardinality(intervals) + Len(countdowns) <= 1

\* C3: end-question runs only for the question that was sent and has not been
\* ended yet (so once per question sent, and never for a question that was not
\* sent), and a question is sent only after the one before it was ended.
C3_EndQuestionOncePerQuestion ==
  [][/\ \A e \in Range(calls') : e[1] = "endQuestion" => awaiting = e[2]
     /\ \A e \in Range(calls') : e[1] = "sendQuestion" => awaiting = Null]_vars

\* C4: the disconnect of the socket that is bound as the host of a registered
\* session removes the session in that step and broadcasts session:ended.
C4_HostDisconnectEndsSession ==
  [][\A c \in Conns :
       (sock[c].open /\ ~sock'[c].open /\ inRegistry /\ hostSocketId = c)
         => (~inRegistry' /\ "session:ended" \in Range(out'))]_vars

\* A player named like `name` (case-insensitively) is in the map under a
\* connected socket other than c.
LiveNamesake(c, name) ==
  \E i \in 1..Len(players) :
    /\ toLowerCase(players[i].name) = toLowerCase(name)
    /\ players[i].id # c
    /\ sock[players[i].id].open

\* C5: a player:join whose name collides case-insensitively with a player that
\* is present under another live connection is refused with DuplicateName and
\* leaves the session as it was.
C5_DuplicateNameRefused ==
  [][\A c \in Conns, name \in Names :
       (inRegistry /\ LiveNamesake(c, name) /\ PlayerJoin(c, SID, name))
         => (out' = <<"error:DuplicateName">> /\ UNCHANGED sessionVars)]_vars

\* C6: after a disconnect removed a player, a player:join under the same name
\* (case-insensitively) succeeds in any status and the player then has the
\* score it had before the disconnect.
C6_ReconnectKeepsScore ==
  [][\A c \in Conns, name \in Names :
       (inRegistry /\ dropped[toLowerCase(name)] # Null /\ PlayerJoin(c, SID, name))
         => /\ out' = <<"lobby:players">>
            /\ \E i \in 1..Len(players') :
                 /\ players'[i].id = c
                 /\ toLowerCase(players'[i].name) = toLowerCase(name)
                 /\ players'[i].score = dropped[toLowerCase(name)]]_vars

\* C9: a host:start of the bound host while the status is playing or finished
\* changes neither status, question index, time limit, countdown value, timers
\* nor any player's current answer and answer time.
C9_SecondStartNoEffect ==
  [][\A c \in Conns, tl \in TimeLimits :
       (SocketSession(c) /\ c = hostSocketId /\ status \in {"playing", "finished"}
          /\ HostStart(c, tl))
         => /\ UNCHANGED <<status, currentQuestionIndex, timeLimit, timeLeft,
                           timer, intervals, countdowns>>
            /\ AnswerState' = AnswerState]_vars

\* C10: currentQuestionIndex never decreases, and it grows from N to N + 1 only
\* in a step in which end-question computed and broadcast the results of
\* question N.
C10_IndexOnlyGrowsAfterResults ==
  [][/\ currentQuestionIndex' >= currentQuestionIndex
     /\ currentQuestionIndex' # currentQuestionIndex =>
          /\ currentQuestionIndex' = currentQuestionIndex + 1
          /\ <<"endQuestion", currentQuestionIndex>> \in Range(calls')
          /\ "quiz:results" \in Range(out')]_vars

\* C7: a player:join under a name that matches no player of the map, while the
\* status is not lobby, is refused with AlreadyStarted and changes nothing of
\* the session, its timers or the sockets; and once the status has left lobby
\* no step adds a name to the player map.
C7_NoNewPlayerAfterLobby ==
  [][/\ \A c \in Conns, name \in Names :
          (inRegistry /\ status # "lobby" /\ FindByName(players, name) = 0
             /\ PlayerJoin(c, SID, name))
            => /\ out' = <<"error:AlreadyStarted">>
               /\ UNCHANGED <<sessionVars, timerVars, sock, awaiting, crashed>>
     /\ status # "lobby" => PlayerNames' \subseteq PlayerNames]_vars

\* A join was refused with AlreadyStarted while the quiz is playing and other
\* players are in the map.
C7_Witness ==
  /\ out = <<"error:AlreadyStarted">>
  /\ status = "playing"
  /\ players # <<>>
  /\ PlayerNames # Names

\* What host:start must leave alone when it is refused.
StartFrame == <<status, currentQuestionIndex, timeLimit, timeLeft, timer,
                intervals, countdowns, cleanups, players, hostSocketId,
                inRegistry, awaiting, crashed>>

\* C8: a host:start from a socket that is not session.hostSocketId is refused
\* with Unauthorized, and one from the bound host of a registered session with
\* an empty player map is refused with NoPlayers; neither changes status,
\* question index, time limit, timers or players.
C8_StartRefusedWithoutEffect ==
  [][\A c \in Conns, tl \in TimeLimits :
       /\ (c # hostSocketId /\ HostStart(c, tl))
            => (out' = <<"error:Unauthorized">> /\ UNCHANGED StartFrame)
       /\ (c = hostSocketId /\ SocketSession(c) /\ players = <<>> /\ HostStart(c, tl))
            => (out' = <<"error:NoPlayers">> /\ UNCHANGED StartFrame)]_vars

\* A former host, whose binding a later host:join overwrote, sent host:start to
\* a session that has players and was refused: with its socket still marked as
\* host and the bound host being the other socket, only it can have been told
\* Unauthorized.
C8_Witness ==
  /\ out = <<"error:Unauthorized">>
  /\ inRegistry /\ players # <<>>
  /\ \E c \in Conns :
       /\ sock[c].open /\ sock[c].isHost = "true" /\ c # hostSocketId
       /\ \A d \in Conns \ {c} : d = hostSocketId /\ SocketSession(d)

\* C11: currentQuestionIndex is at most the number of questions in every
\* reachable state, and every invocation of send-question or end-question
\* happens with an index below the number of questions, so that none reads a
\* question that does not exist and no unhandled fault ends the process.
C11_IndexWithinQuestions ==
  [][/\ currentQuestionIndex' <= Len(questions)
     /\ \A e \in Range(calls') :
          e[1] \in {"sendQuestion", "endQuestion"} => e[2] < Len(questions)
     /\ ~crashed']_vars

\* C12: no step lowers the cumulative score of a player of the map, whatever
\* the step is (a repeated or stray end-question included) and whatever
\* value of session.timeLeft an answer captured.
C12_ScoreNeverDecreases ==
  [][\A i \in 1..Len(players), j \in 1..Len(players') :
       players'[j].name = players[i].name
         => players'[j].score >= players[i].score]_vars

\* C13: what end-question adds to a player's score is 0 when the player's
\* answer is absent or wrong, and otherwise round(500 + (t / L) * 500) for the
\* captured answer time t and the time limit L, with 0 <= t <= L, so that the
\* award lies in 500..1000 and does not decrease as t grows.
C13_AwardWithinRange ==
  [][("quiz:results" \in Range(out') /\ Len(players') = Len(players))
       => \A i \in 1..Len(players) :
            LET p == players[i]
                t == p.answerTime
                L == EffectiveTimeLimit(World)
                award == players'[i].score - p.score
            IN IF p.currentAnswer = Null
                  \/ p.currentAnswer # questions[currentQuestionIndex + 1]
               THEN award = 0
               ELSE /\ 0 <= t /\ t <= L
                    /\ award = (2 * (MIN_POINTS * L + t * (MAX_POINTS - MIN_POINTS)) + L)
                                 \div (2 * L)
                    /\ MIN_POINTS <= award /\ award <= MAX_POINTS
                    /\ \A u \in 0..t : RoundedPoints(u, L) <= award]_vars

\* The place of a name in the order of first joins.
JoinRank(name) == CHOOSE k \in 1..Len(joinOrder) : joinOrder[k] = toLowerCase(name)

\* C14: when the quiz finishes, the final standings hold every player of the
\* map with its score, sorted by descending score; the podium is the first
\* min(3, n) of them with positions 1, 2, 3; and players of equal score appear
\* in the order in which they originally joined, also when one of them
\* reconnected under a new connection in between.
C14_FinalStandings ==
  "quiz:finished" \in Range(out) =>
    /\ Len(allResults) = Len(players)
    /\ \A i \in 1..Len(players) : \E k \in 1..Len(allResults) :
         allResults[k] = [name |-> players[i].name, score |-> players[i].score]
    /\ \A i, k \in 1..Len(allResults) :
         i < k => allResults[i].score >= allResults[k].score
    /\ Len(podium) = (IF Len(allResults) < 3 THEN Len(allResults) ELSE 3)
    /\ \A i \in 1..Len(podium) :
         podium[i] = [position |-> i, name |-> allResults[i].name,
                      score |-> allResults[i].score]
    /\ \A i, k \in 1..Len(allResults) :
         (i < k /\ allResults[i].score = allResults[k].score)
           => JoinRank(allResults[i].name) < JoinRank(allResults[k].name)

\* C15: once the status is finished a cleanup timeout is pending for as long
\* as the session is in the registry, so that the session leaves the registry
\* when the timeout fires, without any client event; the timeout does nothing
\* when a host disconnect removed the session before it fired, and it removes
\* only a session that is finished.
C15_CleanupRemovesFinished ==
  [][/\ (status' = "finished" /\ inRegistry') => cleanups' > 0
     /\ cleanups' < cleanups =>
          IF inRegistry
          THEN status = "finished" /\ ~inRegistry'
          ELSE UNCHANGED <<sessionVars, intervals, countdowns>>]_vars

\* C16: whatever joins, reconnects and disconnects happened, no two entries
\* of the player map have names that are equal case-insensitively.
C16_NamesUnique ==
  \A i, k \in 1..Len(players) :
    i # k => toLowerCase(players[i].name) # toLowerCase(players[k].name)

\* A join under a name that was in the map already, in whatever case, was let
\* through: the player's record, with the name as first written, is now under
\* the socket that sent it, and the socket that held the record before is
\* still connected as a player and holds none.
C16_Witness ==
  /\ out = <<"lobby:players">>
  /\ \E i \in 1..Len(players) : players[i].name = "Al"
  /\ \E c \in Conns :
       /\ SocketSession(c) /\ sock[c].open /\ sock[c].isHost = "false"
       /\ ~MapHas(players, c)

C18_SkipOnlyDuringQuestion ==
  [][\A c \in Conns :
       (/\ used' # used
        /\ ~(/\ SocketSession(c) /\ c = hostSocketId
             /\ status = "playing" /\ timer \in intervals)
        /\ HostSkip(c))
         => /\ calls' = <<>>
            /\ UNCHANGED <<players, currentQuestionIndex, status, timer,
                            intervals, countdowns, cleanups>>]_vars

\* The events of a running quiz.
QuizEvents == {"quiz:timer", "quiz:countdown", "quiz:question", "quiz:results",
               "quiz:finished"}

\* C19: once the disconnect of a host socket has removed the session, no
\* countdown of that session ticks or completes: none of quiz:timer,
\* quiz:countdown, quiz:question, quiz:results and quiz:finished is emitted and
\* neither send-question, end-question nor finish runs, also when the host
\* left during the countdown between two questions.
C19_SilentAfterHostDisconnect ==
  [][endedByHost =>
       /\ Range(out') \cap QuizEvents = {}
       /\ calls' = <<>>
       /\ UNCHANGED <<timeLeft, intervals, countdowns>>]_vars

\* C20: the disconnect of a socket that is not the bound host of the session
\* (a player, or a former host whose binding a later host:join overwrote)
\* neither deletes the session nor changes status, question index, host
\* binding or timers; at most it removes the player entry under its socket id.
C20_OtherDisconnectKeepsSession ==
  [][\A c \in Conns :
       (sock[c].open /\ ~sock'[c].open /\ c # hostSocketId)
         => /\ UNCHANGED <<inRegistry, status, currentQuestionIndex, hostSocketId,
                           timer, intervals, countdowns, cleanups>>
            /\ players' \in {players, MapDelete(players, c)}]_vars

C21_StartedQuizFinishes ==
  (status = "playing" /\ sent # <<>>)
    ~> (status = "finished" /\ sent = [i \in 1..Len(questions) |-> i - 1])

====
